---- MODULE Spec2Model ----
(***************************************************************************)
(* Streaming chat store of the idea-engine web client                      *)
(* (web/src/stores/useAgentStore.ts) with the SSE line parser it embeds.   *)
(*                                                                         *)
(* The source file holds two successive variants of the store.  The later  *)
(* one (lines 647-1420) is the store modelled by Spec and SpecReducer; the *)
(* line parser is modelled for both variants (SpecParser), since they      *)
(* differ in the separator they split on.                                  *)
(***************************************************************************)
EXTENDS Integers, Sequences, FiniteSets, TLC

VARIABLES
    \* ---- SSE line parser (one response body) ----
    variant,        \* "earlier" | "later": which store variant's read loop runs
    input,          \* the whole response body, a sequence of characters
    pos,            \* number of characters already delivered by reader.read()
    buffer,         \* `let buffer = ''`
    emitted,        \* events JSON.parse yielded so far, in order
    processed,      \* every element of `lines` the for-loop has visited so far
    span,           \* chunks that contributed to the current buffer (capped)
    split3,         \* some event came from a line that arrived in >= 3 chunks
    \* ---- the zustand store (later variant) ----
    agents,                 \* agent id -> status, "absent" when not listed
    currentAgentId,
    threads,                \* ids of the listed threads
    messages,               \* the visible transcript
    currentThreadId,
    isLoading,
    isStreaming,
    logs,
    currentAbortController, \* module-level: the turn whose controller it is, 0 = null
    \* ---- asynchronous activity ----
    turns,                  \* per call of sendMessage / startEngineer: its locals
    loads,                  \* thread ids with a loadMessages request in flight
    serverThreads,          \* thread ids the server has persisted
    aborts,                 \* calls of abortStream so far
    deletes,                \* thread ids with a deleteThread call in flight
    \* ---- the server's stream loop (one response) ----
    server                  \* endpoint, position, chunks consumed, frames written

pvars == <<variant, input, pos, buffer, emitted, processed, span, split3>>

svars == <<agents, currentAgentId, threads, messages, currentThreadId,
           isLoading, isStreaming, logs, currentAbortController,
           turns, loads, serverThreads, aborts, deletes, server>>

vars == <<pvars, svars>>

----------------------------------------------------------------------------
(* Bounds *)
MaxFrames == 2      \* frames in one response body
MaxChunk  == 4      \* characters in one chunk, unless it is the whole rest
SpanCap   == 3      \* cap of the chunk counter `span`
MaxTurns  == 2      \* calls of sendMessage / startEngineer in one run
MaxIssues == 1      \* GitHub issues 1..MaxIssues
MaxStream == 1      \* events one response carries (Spec)
MaxEvents == 4      \* events one response carries (SpecReducer)
MaxAborts == 1      \* calls of abortStream in one run
MaxTurnEvents == 3  \* events one response carries (SpecTurn)
MaxReplayEvents == 3 \* events one response carries (SpecReplay)
MaxEmbedded == 3    \* events one response carries (SpecEmbedded)
MaxDeleteEvents == 3 \* events one response carries (SpecDelete, SpecDeleteEarlier)

----------------------------------------------------------------------------
(* Characters.  A body is a sequence of one-character tokens; LF is the    *)
(* line feed, BSL the backslash.                                           *)
LF  == "LF"
BSL == "BSL"

\* 'data: ' (startsWith('data: '), slice(6))
DataPrefix == <<"d", "a", "t", "a", ":", " ">>
PrefixLen  == 6

\* JSON texts the server can write after the prefix (JSON.stringify of one
\* object): a text event, a text event whose content holds an escaped
\* newline (backslash, n inside the JSON string), a tool-call, a finish.
WellFormedPayloads ==
    { <<"{", "t", "}">>,
      <<"{", "t", BSL, "n", "}">>,
      <<"{", "c", "}">>,
      <<"{", "f", "}">> }

\* JSON.parse: the parsed value of a well-formed text, "throw" otherwise.
\* The parsed value keeps the characters between the braces, the escape
\* decoded to a line feed.
RECURSIVE Unescape(_)
Unescape(s) ==
    IF s = <<>> THEN <<>>
    ELSE IF Len(s) >= 2 /\ s[1] = BSL /\ s[2] = "n"
         THEN <<LF>> \o Unescape(SubSeq(s, 3, Len(s)))
         ELSE <<s[1]>> \o Unescape(Tail(s))

JSONParse(s) ==
    IF s \in WellFormedPayloads
    THEN Unescape(SubSeq(s, 2, Len(s) - 1))
    ELSE "throw"

StartsWith(s, p) == Len(s) >= Len(p) /\ SubSeq(s, 1, Len(p)) = p

\* String.prototype.split(sep) for a non-empty separator.
RECURSIVE SplitFrom(_, _, _)
SplitFrom(s, sep, i) ==
    IF i + Len(sep) - 1 > Len(s) THEN <<s>>
    ELSE IF SubSeq(s, i, i + Len(sep) - 1) = sep
         THEN <<SubSeq(s, 1, i - 1)>>
              \o SplitFrom(SubSeq(s, i + Len(sep), Len(s)), sep, 1)
         ELSE SplitFrom(s, sep, i + 1)

Split(s, sep) == SplitFrom(s, sep, 1)

\* The separator each variant passes to split: '\n' in the later variant,
\* '\\n' (a backslash followed by n) in the earlier one.
Separator(v) == IF v = "later" THEN <<LF>> ELSE <<BSL, "n">>

\* `buffer = lines.pop() || ''`: the fragment kept for the next chunk.
DropPartial(lines) == <<>>
Retained(lines) == lines[Len(lines)]

\* The lines the for-loop visits: all fragments but the popped one.
CompleteLines(lines) == SubSeq(lines, 1, Len(lines) - 1)

\* `if (line.startsWith('data: ')) { try { JSON.parse(line.slice(6)) ...`
\* The events one line yields: one event, or none.
LineEventsUncaught(line) ==
    IF StartsWith(line, DataPrefix)
    THEN <<JSONParse(SubSeq(line, PrefixLen + 1, Len(line)))>>
    ELSE <<>>
LineEvents(line) ==
    IF StartsWith(line, DataPrefix)
    THEN LET data == JSONParse(SubSeq(line, PrefixLen + 1, Len(line)))
         IN IF data = "throw" THEN <<>> ELSE <<data>>
    ELSE <<>>

RECURSIVE EventsOfLines(_)
EventsOfLines(ls) ==
    IF ls = <<>> THEN <<>>
    ELSE LineEvents(Head(ls)) \o EventsOfLines(Tail(ls))

\* One iteration of the read loop on a chunk: buffer += chunk, split, pop.
ProcessChunk(v, buf, chunk) ==
    LET lines == Split(buf \o chunk, Separator(v))
    IN [ buffer |-> Retained(lines),
         lines  |-> CompleteLines(lines),
         events |-> EventsOfLines(CompleteLines(lines)) ]

----------------------------------------------------------------------------
(* Response bodies.  The server writes `data: <json>\n\n` per frame        *)
(* (src/server/index.ts); a body may also carry a keep-alive comment line, *)
(* a frame with a damaged payload, and may end without a final line feed.  *)
Frame(p) == DataPrefix \o p \o <<LF, LF>>

FrameMenu ==
    { Frame(p) : p \in WellFormedPayloads }
    \cup { Frame(<<"{", "t">>),              \* damaged JSON
           <<":", "k", LF>>,                 \* comment / keep-alive line
           DataPrefix \o <<"{", "f", "}">> } \* final line without line feed

RECURSIVE Bodies(_)
Bodies(n) ==
    IF n = 0 THEN { <<>> }
    ELSE LET shorter == Bodies(n - 1)
         IN shorter \cup { b \o f : b \in shorter, f \in FrameMenu }

Min(a, b) == IF a < b THEN a ELSE b

----------------------------------------------------------------------------
(* The store: identifiers and records.                                     *)
Issues  == 1..MaxIssues
TurnIds == 1..MaxTurns
ToolIds == {"t1", "t2"}

\* 'pv-1' and `eng-${issueNumber}`
PV     == [k |-> "pv", n |-> 1]
Eng(n) == [k |-> "eng", n |-> n]
AgentIds == {PV} \cup { Eng(n) : n \in Issues }

\* null, `visionary-${uuid}` (the uuid of turn u) and `engineer-${issueNumber}`
NoThread           == [k |-> "none", n |-> 0]
VisionaryThread(u) == [k |-> "visionary", n |-> u]
EngineerThread(n)  == [k |-> "engineer", n |-> n]

\* crypto.randomUUID() of the user message and of the placeholder of turn t
UserId(t)      == [src |-> "user", n |-> t]
AssistantId(t) == [src |-> "assistant", n |-> t]

\* text is a sequence of tokens; '\n\n' is the token PARA
PARA == "PARA"

NoValue == "undefined"

\* entry of the per-turn Map `toolCalls` (a ToolCallLog), by tool-call id
AbsentEntry == [status |-> "absent", result |-> NoValue]

IdleTurn ==
    [ pc          |-> "idle",     \* idle | fetch | errjson | read | refresh | done
      op          |-> "none",     \* send | start
      isEngineer  |-> FALSE,
      issue       |-> 0,
      threadId    |-> NoThread,
      fullContent |-> <<>>,
      toolCalls   |-> [id \in ToolIds |-> AbsentEntry],
      arrived     |-> <<>>,       \* events dispatched so far, finish excluded
      finished    |-> FALSE,      \* a finish event was dispatched
      aborted     |-> FALSE,      \* controller.signal.aborted
      errorData   |-> NoValue,    \* `error` of the non-2xx JSON body
      reason      |-> NoValue,    \* error.message seen by the catch block
      outcome     |-> "none" ]    \* ok | error | aborted

\* events of the wire format
TextEvent(c)          == [type |-> "text", content |-> c, toolCallId |-> NoValue,
                          result |-> NoValue, isError |-> FALSE]
StepFinishEvent       == [type |-> "step-finish", content |-> NoValue,
                          toolCallId |-> NoValue, result |-> NoValue, isError |-> FALSE]
ToolCallEvent(id)     == [type |-> "tool-call", content |-> NoValue, toolCallId |-> id,
                          result |-> NoValue, isError |-> FALSE]
ToolResultEvent(id, r, e) == [type |-> "tool-result", content |-> NoValue,
                          toolCallId |-> id, result |-> r, isError |-> e]
FinishEvent           == [type |-> "finish", content |-> NoValue, toolCallId |-> NoValue,
                          result |-> NoValue, isError |-> FALSE]

\* `content` of a text event: a JSON value, tagged with its typeof and
\* carrying its JSON text
StringContent(x) == [typeof |-> "string", truthy |-> TRUE, json |-> x]
ObjectContent    == [typeof |-> "object", truthy |-> TRUE, json |-> "{\"k\":1}"]
FalseContent     == [typeof |-> "boolean", truthy |-> FALSE, json |-> "false"]

\* typeof data.content === 'string' ? data.content
\*   : (data.content ? JSON.stringify(data.content) : '')
CoerceContent(c) ==
    IF c.typeof = "string" THEN <<c.json>>
    ELSE IF c.truthy THEN <<c.json>> ELSE <<>>

ToolName(id) == "read-file"
ToolArgs(id) == "args"

----------------------------------------------------------------------------
(* set((state) => ({ messages: state.messages.map(m => m.id === id ? f(m) : m) })) *)
MapMessage(msgs, id, F(_)) ==
    [i \in 1..Len(msgs) |-> IF msgs[i].id = id THEN F(msgs[i]) ELSE msgs[i]]

SetContent(msgs, id, c) ==
    LET F(m) == [m EXCEPT !.content = c] IN MapMessage(msgs, id, F)

\* toolCalls: [...(m.toolCalls || []), { id, name, status: 'calling', input }]
NewToolCall(id) ==
    [id |-> id, name |-> ToolName(id), status |-> "calling",
     input |-> ToolArgs(id), output |-> NoValue, error |-> NoValue]

AppendToolCall(msgs, mid, id) ==
    LET F(m) == [m EXCEPT !.toolCalls = Append(@, NewToolCall(id))]
    IN MapMessage(msgs, mid, F)

\* the status a tool-result gives the call: the branch sets 'complete'
\* whatever data.isError holds
ResultStatus(ev) == "complete"

\* tc.id === data.toolCallId ? { ...tc, status: 'complete', output: data.result } : tc
CompleteToolCallLast(msgs, mid, ev) ==
    LET done(tc) == [tc EXCEPT !.status = ResultStatus(ev), !.output = ev.result]
        F(m) == [m EXCEPT !.toolCalls =
                    SelectSeq(@, LAMBDA tc : tc.id # ev.toolCallId)
                    \o [i \in 1..Len(SelectSeq(@, LAMBDA tc : tc.id = ev.toolCallId))
                          |-> done(SelectSeq(@, LAMBDA tc : tc.id = ev.toolCallId)[i])]]
    IN MapMessage(msgs, mid, F)
CompleteToolCall(msgs, mid, ev) ==
    LET G(tc) == IF tc.id = ev.toolCallId
                 THEN [tc EXCEPT !.status = ResultStatus(ev), !.output = ev.result]
                 ELSE tc
        F(m) == [m EXCEPT !.toolCalls = [i \in 1..Len(@) |-> G(@[i])]]
    IN MapMessage(msgs, mid, F)

\* addLog: logs: [...state.logs.slice(-200), entry]
LogKeep == 200
LastN(s, n) == IF Len(s) <= n THEN s ELSE SubSeq(s, Len(s) - n + 1, Len(s))
AddLog(ls, entry) == Append(LastN(ls, LogKeep), entry)

InfoLog(msg)            == [type |-> "info", message |-> msg, toolCall |-> NoValue]
ToolLog(id, entry)      == [type |-> "tool-call", message |-> "Calling",
                            toolCall |-> [id |-> id, status |-> entry.status,
                                          result |-> entry.result]]

\* log.toolCall?.id === data.toolCallId ? { ...log, toolCall: { ...existing } } : log
UpdateLogs(ls, id, entry) ==
    [i \in 1..Len(ls) |->
        IF ls[i].type = "tool-call" /\ ls[i].toolCall.id = id
        THEN [ls[i] EXCEPT !.toolCall = [id |-> id, status |-> entry.status,
                                         result |-> entry.result]]
        ELSE ls[i]]

\* `const existing = toolCalls.get(data.toolCallId); if (existing) { ... }`
AnyId(tr, id) == TRUE
Existing(tr, id) == tr.toolCalls[id].status # "absent"

\* One parsed frame dispatched by the read loop of turn record tr (sendMessage
\* and startEngineer share the branches; only startEngineer has one for
\* finish).  Yields the new locals, messages and logs.
Dispatch(tr, mid, ev, msgs, ls) ==
    LET seen == [tr EXCEPT !.arrived = IF ev.type = "finish" THEN @ ELSE Append(@, ev),
                           !.finished = @ \/ ev.type = "finish"]
    IN
    IF ev.type = "text" THEN
        LET fc == tr.fullContent \o CoerceContent(ev.content)
        IN [turn |-> [seen EXCEPT !.fullContent = fc],
            messages |-> SetContent(msgs, mid, fc), logs |-> ls]
    ELSE IF ev.type = "step-finish" THEN
        LET fc == tr.fullContent \o <<PARA>>
        IN [turn |-> [seen EXCEPT !.fullContent = fc],
            messages |-> SetContent(msgs, mid, fc), logs |-> ls]
    ELSE IF ev.type = "tool-call" THEN
        LET entry == [status |-> "calling", result |-> NoValue]
        IN [turn |-> [seen EXCEPT !.toolCalls[ev.toolCallId] = entry],
            messages |-> AppendToolCall(msgs, mid, ev.toolCallId),
            logs |-> AddLog(ls, ToolLog(ev.toolCallId, entry))]
    ELSE IF ev.type = "tool-result" THEN
        IF Existing(tr, ev.toolCallId) THEN
            LET entry == [status |-> "complete", result |-> ev.result]
            IN [turn |-> [seen EXCEPT !.toolCalls[ev.toolCallId] = entry],
                messages |-> CompleteToolCall(msgs, mid, ev),
                logs |-> UpdateLogs(ls, ev.toolCallId, entry)]
        ELSE [turn |-> seen, messages |-> msgs, logs |-> ls]
    ELSE \* finish
        IF tr.op = "start"
        THEN [turn |-> seen, messages |-> msgs,
              logs |-> AddLog(ls, InfoLog("Engineer completed"))]
        ELSE [turn |-> seen, messages |-> msgs, logs |-> ls]

----------------------------------------------------------------------------
(* Inputs *)
UserText == "q"

\* events a response may carry (SpecReducer)
EventMenu ==
    { TextEvent(StringContent("a")), TextEvent(StringContent("b")),
      TextEvent(ObjectContent), TextEvent(FalseContent), StepFinishEvent,
      FinishEvent }
    \cup { ToolCallEvent(id) : id \in ToolIds }
    \cup { ToolResultEvent(id, "r1", FALSE) : id \in ToolIds }
    \cup { ToolResultEvent("t1", "r2", TRUE) }

\* text that carries a tool call in embedded syntax, cut in two pieces: a
\* tagged block naming the tool and the call id t2
BlockOpen  == "<json>{ name: read-file, "
BlockClose == "id: t2 }</json>"

\* events of a response whose text carries an embedded tool call
EmbeddedMenu ==
    { TextEvent(StringContent("a")), TextEvent(StringContent(BlockOpen)),
      TextEvent(StringContent(BlockClose)), FinishEvent }

\* events a response may carry (Spec)
StreamMenu ==
    { TextEvent(StringContent("a")), ToolCallEvent("t1"),
      ToolResultEvent("t1", "r1", FALSE), FinishEvent }

\* `error` of a non-2xx JSON body; NoValue when the body is not JSON or has
\* no error field
ErrorBodies == {"server error", NoValue}

\* what GET /threads/:id/messages returns, already filtered by role
ServerMessage == [id |-> [src |-> "server", n |-> 1], role |-> "user",
                  content |-> [shape |-> "string", text |-> <<UserText>>,
                               parts |-> <<>>]]
ServerReplies == { <<>>, <<ServerMessage>> }

\* parts of a stored message content
TextPart(x)         == [type |-> "text", text |-> <<x>>, id |-> NoValue,
                        result |-> NoValue]
InvocationPart(id, r) == [type |-> "tool-invocation", text |-> <<>>, id |-> id,
                        result |-> r]

\* the three shapes in which the memory store returns a message content:
\* a string, an array of fragments, { format: 2, parts }
StoredContents ==
    { [shape |-> "string", text |-> <<"a">>, parts |-> <<>>],
      [shape |-> "array", text |-> <<>>, parts |-> <<TextPart("a")>>],
      [shape |-> "format2", text |-> <<>>,
       parts |-> <<TextPart("a"), InvocationPart("t1", "r1")>>],
      [shape |-> "format2", text |-> <<>>,
       parts |-> <<InvocationPart("t1", "r1")>>] }

\* what GET /threads/:id/messages returns for the thread of an engineer
\* turn: the assistant message the memory store persisted
StoredReplies ==
    { << [id |-> [src |-> "server", n |-> 2], role |-> "assistant",
          content |-> c] >> : c \in StoredContents }

----------------------------------------------------------------------------
(* Initial state: the store as created (lines 715-727), nothing in flight. *)
(* The server's stream loops (src/server/index.ts) *)

\* JavaScript values a chunk field can hold: undefined, a string (a
\* sequence of characters) or an object
JsUndefined == [typeof |-> "undefined", chars |-> <<>>]
JsString(s) == [typeof |-> "string", chars |-> s]
JsObject    == [typeof |-> "object", chars |-> <<>>]

JsTruthy(v) == v.typeof = "object" \/ (v.typeof = "string" /\ v.chars # <<>>)

\* a || b
JsOr(a, b) == IF JsTruthy(a) THEN a ELSE b

\* result.slice(0, 500)
ResultKeep == 500
Slice(v) ==
    JsString(IF Len(v.chars) <= ResultKeep THEN v.chars
             ELSE SubSeq(v.chars, 1, ResultKeep))

\* the fields the loops read from a chunk or from its payload
NoFields ==
    [textDelta |-> JsUndefined, text |-> JsUndefined,
     toolCallId |-> JsUndefined, id |-> JsUndefined,
     toolName |-> JsUndefined, name |-> JsUndefined,
     args |-> JsUndefined, arguments |-> JsUndefined,
     result |-> JsUndefined]

\* a chunk of response.fullStream: its fields lie at the top level or
\* under `payload`
FlatChunk(type, f)    == [type |-> type, hasPayload |-> FALSE,
                          payload |-> NoFields, top |-> f]
WrappedChunk(type, f) == [type |-> type, hasPayload |-> TRUE,
                          payload |-> f, top |-> NoFields]

\* const payload = (chunk as any).payload || chunk
Payload(ch) == IF ch.hasPayload THEN ch.payload ELSE ch.top

LongResult == JsString([i \in 1..(ResultKeep + 1) |-> "x"])

ChunkMenu ==
    { FlatChunk("text-delta", [NoFields EXCEPT !.textDelta = JsString(<<"a">>)]),
      WrappedChunk("text-delta", [NoFields EXCEPT !.text = JsString(<<"b">>)]),
      FlatChunk("text-delta", [NoFields EXCEPT !.textDelta = JsString(<<>>)]),
      WrappedChunk("text-delta", NoFields),
      FlatChunk("tool-call", [NoFields EXCEPT !.toolCallId = JsString(<<"t1">>),
                                              !.toolName = JsString(<<"read-file">>),
                                              !.args = JsObject]),
      WrappedChunk("tool-call", [NoFields EXCEPT !.id = JsString(<<"t2">>),
                                                 !.name = JsString(<<"read-file">>),
                                                 !.arguments = JsObject]),
      FlatChunk("tool-result", [NoFields EXCEPT !.toolCallId = JsString(<<"t1">>),
                                                !.result = JsString(<<"r">>)]),
      WrappedChunk("tool-result", [NoFields EXCEPT !.id = JsString(<<"t2">>),
                                                   !.result = LongResult]),
      FlatChunk("tool-result", [NoFields EXCEPT !.toolCallId = JsString(<<"t1">>),
                                                !.result = JsObject]),
      FlatChunk("step-finish", NoFields),
      WrappedChunk("finish", NoFields),
      FlatChunk("step-start", NoFields),
      WrappedChunk("error", NoFields) }

\* the object handed to JSON.stringify; undefined fields are left out of
\* the JSON text
FrameObject(type, content, id, name, args, result) ==
    [type |-> type, content |-> content, toolCallId |-> id, toolName |-> name,
     args |-> args, result |-> result]

\* text of a text-delta chunk: /api/engineer/chat reads payload.textDelta
\* || payload.text || '' (line 273), /api/engineer/start also the chunk's
\* own textDelta and text (line 383)
DeltaText(endpoint, ch) ==
    LET p == Payload(ch)
    IN IF endpoint = "chat"
       THEN JsOr(JsOr(p.textDelta, p.text), JsString(<<>>))
       ELSE JsOr(JsOr(JsOr(JsOr(p.textDelta, p.text), ch.top.textDelta),
                      ch.top.text), JsString(<<>>))

WrittenForNoStepFinish(endpoint, ch) ==
    IF ch.type = "finish"
    THEN << FrameObject("finish", JsUndefined, JsUndefined, JsUndefined,
                  JsUndefined, JsUndefined) >>
    ELSE <<>>

\* one pass of the body of `for await (const chunk of response.fullStream)`:
\* the frames it writes
WrittenFor(endpoint, ch) ==
    LET p == Payload(ch)
    IN IF ch.type = "text-delta"
       THEN IF JsTruthy(DeltaText(endpoint, ch))
            THEN << FrameObject("text", DeltaText(endpoint, ch), JsUndefined,
                          JsUndefined, JsUndefined, JsUndefined) >>
            ELSE <<>>
       ELSE IF ch.type = "tool-call"
       THEN << FrameObject("tool-call", JsUndefined, JsOr(p.toolCallId, p.id),
                     JsOr(p.toolName, p.name), JsOr(p.args, p.arguments),
                     JsUndefined) >>
       ELSE IF ch.type = "tool-result"
       THEN << FrameObject("tool-result", JsUndefined, JsOr(p.toolCallId, p.id),
                     JsOr(p.toolName, p.name), JsUndefined,
                     IF p.result.typeof = "string" THEN Slice(p.result)
                     ELSE p.result) >>
       ELSE IF ch.type = "step-finish"
       THEN << FrameObject("step-finish", JsUndefined, JsUndefined, JsUndefined,
                     JsUndefined, JsUndefined) >>
       ELSE IF ch.type = "finish"
       THEN << FrameObject("finish", JsUndefined, JsUndefined, JsUndefined,
                     JsUndefined, JsUndefined) >>
       ELSE <<>>

ServerIdle == [endpoint |-> "none", pc |-> "idle", chunks |-> <<>>,
               written |-> <<>>]

InitStore ==
    /\ agents = [a \in AgentIds |-> IF a = PV THEN "idle" ELSE "absent"]
    /\ currentAgentId = PV
    /\ threads = {}
    /\ messages = <<>>
    /\ currentThreadId = NoThread
    /\ isLoading = FALSE
    /\ isStreaming = FALSE
    /\ logs = <<>>
    /\ currentAbortController = 0
    /\ turns = [t \in TurnIds |-> IdleTurn]
    /\ loads = {}
    /\ serverThreads = {}
    /\ aborts = 0
    /\ deletes = {}
    /\ server = ServerIdle

ParserIdle ==
    /\ variant = "later"
    /\ input = <<>>
    /\ pos = 0
    /\ buffer = <<>>
    /\ emitted = <<>>
    /\ processed = <<>>
    /\ span = 0
    /\ split3 = FALSE

Init == InitStore /\ ParserIdle

\* turn records are taken in order
NewTurn(t) ==
    /\ turns[t].pc = "idle"
    /\ \A u \in TurnIds : u < t => turns[u].pc # "idle"

\* t.id.startsWith('engineer-') ? `eng-${issueNumber}` : 'pv-1'
AgentOfThread(th) == IF th.k = "engineer" THEN Eng(th.n) ELSE PV

\* parts.map(...).filter(Boolean).join(''): a text part gives its text, a
\* tool-invocation or tool-call part '', any other part its text or ''
RECURSIVE JoinParts(_)
JoinParts(ps) ==
    IF ps = <<>> THEN <<>>
    ELSE (IF Head(ps).type \in {"tool-invocation", "tool-call"} THEN <<>>
          ELSE Head(ps).text)
         \o JoinParts(Tail(ps))

\* extractTextContent: string, { format: 2, parts }, array of fragments
ExtractTextContent(c) ==
    IF c.shape = "string" THEN c.text
    ELSE IF c.shape \in {"format2", "array"} THEN JoinParts(c.parts)
    ELSE <<>>

\* loadMessages' map and filters over the reply
LoadedMessages(reply) ==
    LET mapped == [i \in 1..Len(reply) |->
                      [id |-> reply[i].id, role |-> reply[i].role,
                       content |-> ExtractTextContent(reply[i].content),
                       toolCalls |-> <<>>]]
    IN SelectSeq(mapped, LAMBDA m : m.content # <<>>)

----------------------------------------------------------------------------
(* Synchronous store actions *)

\* setCurrentThread(threadId) for a listed thread; calls loadMessages, whose
\* synchronous part sets isLoading and sends the request
SetCurrentThread(th) ==
    /\ th \in threads
    /\ currentThreadId' = th
    /\ currentAgentId' = AgentOfThread(th)
    /\ IF ~isStreaming
       THEN /\ isLoading' = TRUE
            /\ loads' = loads \cup {th}
       ELSE UNCHANGED <<isLoading, loads>>
    /\ UNCHANGED <<pvars, server, deletes, agents, threads, messages, isStreaming, logs,
                   currentAbortController, turns, serverThreads, aborts>>

\* createNewThread
CreateNewThread ==
    /\ currentThreadId' = NoThread
    /\ messages' = <<>>
    /\ currentAgentId' = PV
    /\ UNCHANGED <<pvars, server, deletes, agents, threads, isLoading, isStreaming, logs,
                   currentAbortController, turns, loads, serverThreads, aborts>>

\* ChatPanel's polling effect: every 2 seconds, while the current agent is
\* an engineer with status 'working', loadMessages(currentThreadId)
PollTick ==
    /\ \/ (agents[currentAgentId] # "absent" /\ currentAgentId.k = "eng")
       \/ currentThreadId.k = "engineer"
       \/ currentAgentId.k = "eng"
    /\ currentThreadId # NoThread
    /\ agents[currentAgentId] = "working"
    /\ currentThreadId \notin loads
    /\ isLoading' = TRUE
    /\ loads' = loads \cup {currentThreadId}
    /\ UNCHANGED <<pvars, server, deletes, agents, currentAgentId, threads, messages, currentThreadId,
                   isStreaming, logs, currentAbortController, turns,
                   serverThreads, aborts>>

\* loadMessages after its awaits: the reply replaces the transcript; a
\* failed request empties it
LoadMessagesDone(th, ok, reply) ==
    /\ th \in loads
    /\ loads' = loads \ {th}
    /\ messages' = IF ok THEN LoadedMessages(reply) ELSE <<>>
    /\ isLoading' = FALSE
    /\ UNCHANGED <<pvars, server, deletes, agents, currentAgentId, threads, currentThreadId,
                   isStreaming, logs, currentAbortController, turns,
                   serverThreads, aborts>>

----------------------------------------------------------------------------
(* Turns: sendMessage and startEngineer *)

\* sendMessage(content) up to its first await (lines 880-945)
SendMessage(t) ==
    LET isEngineer == currentAgentId.k = "eng"
        issue      == IF isEngineer THEN currentAgentId.n ELSE 0
        isNew      == currentThreadId = NoThread
        threadId   == IF ~isNew THEN currentThreadId
                      ELSE IF isEngineer THEN EngineerThread(issue)
                      ELSE VisionaryThread(t)
        userMessage == [id |-> UserId(t), role |-> "user",
                        content |-> <<UserText>>, toolCalls |-> <<>>]
        assistantMessage == [id |-> AssistantId(t), role |-> "assistant",
                             content |-> <<>>, toolCalls |-> <<>>]
    IN /\ NewTurn(t)
       /\ currentThreadId' = threadId
       /\ threads' = IF isNew THEN threads \cup {threadId} ELSE threads
       /\ messages' = messages \o <<userMessage, assistantMessage>>
       /\ isStreaming' = TRUE
       /\ currentAbortController' = t
       /\ turns' = [turns EXCEPT ![t] =
              [IdleTurn EXCEPT !.pc = "fetch", !.op = "send",
                               !.isEngineer = isEngineer, !.issue = issue,
                               !.threadId = threadId]]
       /\ UNCHANGED <<pvars, server, deletes, agents, currentAgentId, isLoading, logs, loads,
                      serverThreads, aborts>>

\* ChatPanel.handleSubmit: `if (!input.trim() || isStreaming) return`
HandleSubmit(t) ==
    /\ ~isStreaming
    /\ SendMessage(t)

\* startEngineer(issueNumber) up to its first await (lines 1120-1184); the
\* Start button is shown for an issue that has no listed engineer thread
\* and whose engineer is not working
StartEngineer(t, n) ==
    LET assistantMessage == [id |-> AssistantId(t), role |-> "assistant",
                             content |-> <<>>, toolCalls |-> <<>>]
    IN /\ NewTurn(t)
       /\ agents[Eng(n)] # "working"
       /\ EngineerThread(n) \notin threads
       /\ currentAgentId' = Eng(n)
       /\ currentThreadId' = EngineerThread(n)
       /\ isStreaming' = TRUE
       /\ agents' = [agents EXCEPT ![Eng(n)] = "working"]
       /\ messages' = <<assistantMessage>>
       /\ logs' = AddLog(<<>>, InfoLog("Starting engineer"))
       /\ currentAbortController' = t
       /\ turns' = [turns EXCEPT ![t] =
              [IdleTurn EXCEPT !.pc = "fetch", !.op = "start",
                               !.isEngineer = TRUE, !.issue = n,
                               !.threadId = EngineerThread(n)]]
       /\ UNCHANGED <<pvars, server, deletes, threads, isLoading, loads, serverThreads, aborts>>

Unsettled(tr, outcome, reason) == tr

\* a call that has returned: its locals are gone, the record keeps what the
\* call was and how it ended
Settled(tr, outcome, reason) ==
    [IdleTurn EXCEPT !.pc = "done", !.op = tr.op, !.isEngineer = tr.isEngineer,
                     !.issue = tr.issue, !.threadId = tr.threadId,
                     !.aborted = tr.aborted, !.outcome = outcome,
                     !.reason = reason]

\* `Error: ${errorMessage}` as text
ErrorMarker(reason) == <<"Error: ", reason>>

\* errorData.error || 'Failed to send message' / 'Failed to start engineer'
DefaultError(op) ==
    IF op = "send" THEN "Failed to send message" ELSE "Failed to start engineer"

\* agents.map(a => a.id === `eng-${issueNumber}` ? { ...a, status } : a)
MarkEngineer(ags, n, status) ==
    IF ags[Eng(n)] # "absent" THEN [ags EXCEPT ![Eng(n)] = status] ELSE ags

\* catch block for an error that is not an AbortError, then finally
\* (lines 1083-1101 and 1321-1343): given the store fields as they stand
Fail(t, reason, msgs, ags) ==
    /\ messages' = SetContent(msgs, AssistantId(t), ErrorMarker(reason))
    /\ agents' = IF turns[t].op = "start"
                 THEN MarkEngineer(ags, turns[t].issue, "error") ELSE ags
    /\ currentAbortController' = 0
    /\ isStreaming' = FALSE
    /\ turns' = [turns EXCEPT ![t] = Settled(@, "error", reason)]

\* fetch resolves with a 2xx response; the server has the thread by then
FetchOk(t) ==
    /\ turns[t].pc = "fetch"
    /\ turns' = [turns EXCEPT ![t].pc = "read"]
    /\ serverThreads' = serverThreads \cup {turns[t].threadId}
    /\ UNCHANGED <<pvars, server, deletes, agents, currentAgentId, threads, messages, currentThreadId,
                   isLoading, isStreaming, logs, currentAbortController, loads,
                   aborts>>

\* fetch resolves with a non-2xx response: `await res.json().catch(() => ({}))`
FetchNotOk(t, e) ==
    /\ turns[t].pc = "fetch"
    /\ turns' = [turns EXCEPT ![t].pc = "errjson", ![t].errorData = e]
    /\ UNCHANGED <<pvars, server, deletes, agents, currentAgentId, threads, messages, currentThreadId,
                   isLoading, isStreaming, logs, currentAbortController, loads,
                   serverThreads, aborts>>

\* the error body has been read: throw new Error(errorData.error || default)
ErrorBodyRead(t) ==
    /\ turns[t].pc = "errjson"
    /\ Fail(t, IF turns[t].errorData # NoValue THEN turns[t].errorData
               ELSE DefaultError(turns[t].op), messages, agents)
    /\ UNCHANGED <<pvars, server, deletes, currentAgentId, threads, currentThreadId, isLoading,
                   logs, loads, serverThreads, aborts>>

\* fetch rejects (network error)
FetchRejects(t) ==
    /\ turns[t].pc = "fetch"
    /\ Fail(t, "Failed to fetch", messages, agents)
    /\ UNCHANGED <<pvars, server, deletes, currentAgentId, threads, currentThreadId, isLoading,
                   logs, loads, serverThreads, aborts>>

\* reader.read() rejects (connection lost mid-stream)
ReadRejects(t) ==
    /\ turns[t].pc = "read"
    /\ Fail(t, "network error", messages, agents)
    /\ UNCHANGED <<pvars, server, deletes, currentAgentId, threads, currentThreadId, isLoading,
                   logs, loads, serverThreads, aborts>>

\* reader.read() resolves with the bytes of one frame of an SSE response;
\* the frame is parsed and dispatched (lines 969-1065 and 1203-1305)
ReadEvent(t, ev, max) ==
    /\ turns[t].pc = "read"
    /\ turns[t].isEngineer
    /\ IF ev.type = "finish" THEN ~turns[t].finished
       ELSE Len(turns[t].arrived) < max
    /\ LET d == Dispatch(turns[t], AssistantId(t), ev, messages, logs)
       IN /\ turns' = [turns EXCEPT ![t] = d.turn]
          /\ messages' = d.messages
          /\ logs' = d.logs
    /\ UNCHANGED <<pvars, server, deletes, agents, currentAgentId, threads, currentThreadId,
                   isLoading, isStreaming, currentAbortController, loads,
                   serverThreads, aborts>>

\* reader.read() resolves with a chunk of the visionary's plain text
\* (lines 1066-1076)
ReadText(t, c, max) ==
    /\ turns[t].pc = "read"
    /\ ~turns[t].isEngineer
    /\ Len(turns[t].arrived) < max
    /\ LET fc == turns[t].fullContent \o <<c>>
       IN /\ turns' = [turns EXCEPT ![t].fullContent = fc,
                          ![t].arrived = Append(@, TextEvent(StringContent(c)))]
          /\ messages' = SetContent(messages, AssistantId(t), fc)
    /\ UNCHANGED <<pvars, server, deletes, agents, currentAgentId, threads, currentThreadId,
                   isLoading, isStreaming, logs, currentAbortController, loads,
                   serverThreads, aborts>>

\* reader.read() resolves with done: startEngineer marks its engineer
\* completed; both call loadThreads, whose synchronous part sets isLoading
StreamEnd(t) ==
    /\ turns[t].pc = "read"
    /\ turns' = [turns EXCEPT ![t].pc = "refresh"]
    /\ agents' = IF turns[t].op = "start"
                 THEN MarkEngineer(agents, turns[t].issue, "completed")
                 ELSE agents
    /\ isLoading' = TRUE
    /\ UNCHANGED <<pvars, server, deletes, currentAgentId, threads, messages, currentThreadId,
                   isStreaming, logs, currentAbortController, loads,
                   serverThreads, aborts>>

\* loadThreads' rebuilt agent list: pv-1 and one idle engineer per
\* engineer thread
RebuiltAgents(ths) ==
    [a \in AgentIds |->
        IF a = PV THEN "idle"
        ELSE IF EngineerThread(a.n) \in ths THEN "idle" ELSE "absent"]

\* the awaited loadThreads returns (its own errors are caught inside it),
\* then the turn's finally block runs
RefreshDone(t, ok) ==
    /\ turns[t].pc = "refresh"
    /\ IF ok
       THEN /\ threads' = serverThreads
            /\ agents' = RebuiltAgents(serverThreads)
       ELSE UNCHANGED <<threads, agents>>
    /\ isLoading' = FALSE
    /\ currentAbortController' = 0
    /\ isStreaming' = FALSE
    /\ turns' = [turns EXCEPT ![t] = Settled(@, "ok", NoValue)]
    /\ UNCHANGED <<pvars, server, deletes, currentAgentId, messages, currentThreadId, logs, loads,
                   serverThreads, aborts>>

\* what the turn's catch block receives when abort() rejects its pending
\* await: the AbortError of fetch or reader.read(); while the error body is
\* being read, res.json()'s rejection is swallowed by .catch(() => ({})) and
\* the default error is thrown instead
AlwaysDefaultError(tr) == DefaultError(tr.op)
CaughtOnAbort(tr) ==
    IF tr.pc = "errjson" THEN DefaultError(tr.op) ELSE "AbortError"

\* abortStream (lines 1347-1371).  controller.abort() rejects the pending
\* fetch, body read or stream read of the turn that owns the registered
\* controller; the rejection is handled in the microtasks that follow this
\* handler, before any other task, so the turn's catch and finally blocks
\* are part of the step.  A turn that is awaiting loadThreads is not
\* affected by abort().
AbortStream ==
    LET c == currentAbortController
        afterAbort == IF currentAgentId.k = "eng"
                      THEN MarkEngineer(agents, currentAgentId.n, "idle")
                      ELSE agents
        rejected == c # 0 /\ turns[c].pc \in {"fetch", "errjson", "read"}
    IN /\ aborts < MaxAborts
       /\ aborts' = aborts + 1
       /\ logs' = AddLog(logs, InfoLog("Aborted by user"))
       /\ IF rejected /\ CaughtOnAbort(turns[c]) = "AbortError"
          THEN \* `if (error.name === 'AbortError') return`, then finally
               /\ turns' = [turns EXCEPT ![c] =
                      Settled([@ EXCEPT !.aborted = TRUE], "aborted", NoValue)]
               /\ agents' = afterAbort
               /\ UNCHANGED messages
          ELSE IF rejected
          THEN \* any other error: the marker is written, then finally
               /\ messages' = SetContent(messages, AssistantId(c),
                                         ErrorMarker(CaughtOnAbort(turns[c])))
               /\ agents' = IF turns[c].op = "start"
                            THEN MarkEngineer(afterAbort, turns[c].issue, "error")
                            ELSE afterAbort
               /\ turns' = [turns EXCEPT ![c] =
                      Settled([@ EXCEPT !.aborted = TRUE], "error",
                              CaughtOnAbort(turns[c]))]
          ELSE /\ turns' = IF c # 0 THEN [turns EXCEPT ![c].aborted = TRUE]
                           ELSE turns
               /\ agents' = afterAbort
               /\ UNCHANGED messages
       /\ currentAbortController' = 0
       /\ isStreaming' = FALSE
       /\ UNCHANGED <<pvars, server, deletes, currentAgentId, threads, currentThreadId, isLoading,
                      loads, serverThreads>>

----------------------------------------------------------------------------
(* The store with its user and its server *)
Next ==
    \/ \E th \in [k : {"visionary", "engineer"}, n : TurnIds \cup Issues] :
          SetCurrentThread(th)
    \/ CreateNewThread
    \/ PollTick
    \/ \E th \in [k : {"visionary", "engineer"}, n : TurnIds \cup Issues],
          reply \in ServerReplies, ok \in BOOLEAN :
          LoadMessagesDone(th, ok, reply)
    \/ \E t \in TurnIds : HandleSubmit(t)
    \/ \E t \in TurnIds, n \in Issues : StartEngineer(t, n)
    \/ \E t \in TurnIds : FetchOk(t)
    \/ \E t \in TurnIds, e \in ErrorBodies : FetchNotOk(t, e)
    \/ \E t \in TurnIds : ErrorBodyRead(t)
    \/ \E t \in TurnIds : FetchRejects(t)
    \/ \E t \in TurnIds : ReadRejects(t)
    \/ \E t \in TurnIds, ev \in StreamMenu : ReadEvent(t, ev, MaxStream)
    \/ \E t \in TurnIds : ReadText(t, "a", MaxStream)
    \/ \E t \in TurnIds : StreamEnd(t)
    \/ \E t \in TurnIds, ok \in BOOLEAN : RefreshDone(t, ok)
    \/ AbortStream

Spec == Init /\ [][Next]_vars

(* One engineer turn with the full event menu *)
NextReducer ==
    \/ \E n \in Issues : StartEngineer(1, n)
    \/ FetchOk(1)
    \/ \E ev \in EventMenu : ReadEvent(1, ev, MaxEvents)
    \/ StreamEnd(1)
    \/ \E ok \in BOOLEAN : RefreshDone(1, ok)

SpecReducer == Init /\ [][NextReducer]_vars

(* The earlier variant of the store (lines 137-646): startEngineer and   *)
(* the event dispatch of its read loop.                                    *)

\* fullContent += data.content || ''
CoerceEarlier(c) ==
    IF ~c.truthy THEN <<>>
    ELSE IF c.typeof = "string" THEN <<c.json>>
    ELSE <<"[object Object]">>

\* keys of toolCallsMap in insertion order: the ids of the tool-call events
\* dispatched, each at its first occurrence
RECURSIVE MapKeys(_)
MapKeys(evs) ==
    IF evs = <<>> THEN <<>>
    ELSE LET before == MapKeys(SubSeq(evs, 1, Len(evs) - 1))
             ev     == evs[Len(evs)]
         IN IF /\ ev.type = "tool-call"
               /\ \A i \in 1..Len(before) : before[i] # ev.toolCallId
            THEN Append(before, ev.toolCallId)
            ELSE before

\* Array.from(toolCallsMap.values())
ArrayFromMap(map, keys) ==
    [i \in 1..Len(keys) |->
        [id |-> keys[i], name |-> ToolName(keys[i]), status |-> map[keys[i]].status,
         input |-> ToolArgs(keys[i]), output |-> map[keys[i]].result,
         error |-> NoValue]]

\* { ...m, toolCalls: Array.from(toolCallsMap.values()) }
SetToolCalls(msgs, id, tcs) ==
    LET F(m) == [m EXCEPT !.toolCalls = tcs] IN MapMessage(msgs, id, F)

\* One parsed frame dispatched by the earlier read loop (lines 520-595):
\* there is no branch for step-finish; finish marks the engineer completed.
DispatchEarlier(tr, mid, ev, msgs, ls, ags) ==
    LET seen == [tr EXCEPT !.arrived = IF ev.type = "finish" THEN @ ELSE Append(@, ev),
                           !.finished = @ \/ ev.type = "finish"]
        keys == MapKeys(seen.arrived)
    IN
    IF ev.type = "text" THEN
        LET fc == tr.fullContent \o CoerceEarlier(ev.content)
        IN [turn |-> [seen EXCEPT !.fullContent = fc],
            messages |-> SetContent(msgs, mid, fc), logs |-> ls, agents |-> ags]
    ELSE IF ev.type = "tool-call" THEN
        LET entry == [status |-> "calling", result |-> NoValue]
            map   == [tr.toolCalls EXCEPT ![ev.toolCallId] = entry]
        IN [turn |-> [seen EXCEPT !.toolCalls = map],
            messages |-> SetToolCalls(msgs, mid, ArrayFromMap(map, keys)),
            logs |-> Append(ls, ToolLog(ev.toolCallId, entry)), agents |-> ags]
    ELSE IF ev.type = "tool-result" /\ Existing(tr, ev.toolCallId) THEN
        LET entry == [status |-> "complete", result |-> ev.result]
            map   == [tr.toolCalls EXCEPT ![ev.toolCallId] = entry]
        IN [turn |-> [seen EXCEPT !.toolCalls = map],
            messages |-> SetToolCalls(msgs, mid, ArrayFromMap(map, keys)),
            logs |-> UpdateLogs(ls, ev.toolCallId, entry), agents |-> ags]
    ELSE IF ev.type = "finish" /\ tr.op = "start" THEN
        [turn |-> seen, messages |-> msgs, logs |-> ls,
         agents |-> MarkEngineer(ags, tr.issue, "completed")]
    ELSE [turn |-> seen, messages |-> msgs, logs |-> ls, agents |-> ags]

InitEarlier ==
    /\ InitStore
    /\ variant = "earlier"
    /\ input = <<>>
    /\ pos = 0
    /\ buffer = <<>>
    /\ emitted = <<>>
    /\ processed = <<>>
    /\ span = 0
    /\ split3 = FALSE

\* startEngineer up to its first await (lines 442-479): the transcript is
\* emptied, the engineer is added as working when it is not listed
StartEngineerEarlier(t, n) ==
    /\ NewTurn(t)
    /\ agents[Eng(n)] # "working"
    /\ EngineerThread(n) \notin threads
    /\ currentAgentId' = Eng(n)
    /\ currentThreadId' = EngineerThread(n)
    /\ messages' = <<>>
    /\ isStreaming' = TRUE
    /\ agents' = IF agents[Eng(n)] = "absent"
                 THEN [agents EXCEPT ![Eng(n)] = "working"] ELSE agents
    /\ turns' = [turns EXCEPT ![t] =
           [IdleTurn EXCEPT !.pc = "fetch", !.op = "start",
                            !.isEngineer = TRUE, !.issue = n,
                            !.threadId = EngineerThread(n)]]
    /\ UNCHANGED <<pvars, server, deletes, threads, isLoading, logs, currentAbortController,
                   loads, serverThreads, aborts>>

\* fetch resolves with a 2xx response: the placeholder becomes the whole
\* transcript (lines 486-503)
FetchOkEarlier(t) ==
    /\ turns[t].pc = "fetch"
    /\ turns' = [turns EXCEPT ![t].pc = "read"]
    /\ messages' = << [id |-> AssistantId(t), role |-> "assistant",
                       content |-> <<>>, toolCalls |-> <<>>] >>
    /\ serverThreads' = serverThreads \cup {turns[t].threadId}
    /\ UNCHANGED <<pvars, server, deletes, agents, currentAgentId, threads, currentThreadId,
                   isLoading, isStreaming, logs, currentAbortController, loads,
                   aborts>>

\* a data: line of the earlier read loop has parsed and is dispatched
\* (lines 515-600)
ReadEventEarlier(t, ev, max) ==
    /\ turns[t].pc = "read"
    /\ IF ev.type = "finish" THEN ~turns[t].finished
       ELSE Len(turns[t].arrived) < max
    /\ LET d == DispatchEarlier(turns[t], AssistantId(t), ev, messages, logs, agents)
       IN /\ turns' = [turns EXCEPT ![t] = d.turn]
          /\ messages' = d.messages
          /\ logs' = d.logs
          /\ agents' = d.agents
    /\ UNCHANGED <<pvars, server, deletes, currentAgentId, threads, currentThreadId, isLoading,
                   isStreaming, currentAbortController, loads, serverThreads,
                   aborts>>

\* reader.read() resolves with done: loadThreads is called (lines 604-605)
StreamEndEarlier(t) ==
    /\ turns[t].pc = "read"
    /\ turns' = [turns EXCEPT ![t].pc = "refresh"]
    /\ isLoading' = TRUE
    /\ UNCHANGED <<pvars, server, deletes, agents, currentAgentId, threads, messages,
                   currentThreadId, isStreaming, logs, currentAbortController,
                   loads, serverThreads, aborts>>

\* the awaited loadThreads (lines 175-186) returns, then finally (626-628)
RefreshDoneEarlier(t, ok) ==
    /\ turns[t].pc = "refresh"
    /\ threads' = IF ok THEN serverThreads ELSE threads
    /\ isLoading' = FALSE
    /\ isStreaming' = FALSE
    /\ turns' = [turns EXCEPT ![t] = Settled(@, "ok", NoValue)]
    /\ UNCHANGED <<pvars, server, deletes, agents, currentAgentId, messages, currentThreadId,
                   logs, currentAbortController, loads, serverThreads, aborts>>

NextEarlier ==
    \/ \E n \in Issues : StartEngineerEarlier(1, n)
    \/ FetchOkEarlier(1)
    \/ \E ev \in EventMenu : ReadEventEarlier(1, ev, MaxEvents)
    \/ StreamEndEarlier(1)
    \/ \E ok \in BOOLEAN : RefreshDoneEarlier(1, ok)

SpecEarlier == InitEarlier /\ [][NextEarlier]_vars

(* One engineer turn whose text may carry an embedded tool call *)
NextEmbedded ==
    \/ \E n \in Issues : StartEngineer(1, n)
    \/ FetchOk(1)
    \/ \E ev \in EmbeddedMenu : ReadEvent(1, ev, MaxEmbedded)
    \/ StreamEnd(1)
    \/ \E ok \in BOOLEAN : RefreshDone(1, ok)

SpecEmbedded == Init /\ [][NextEmbedded]_vars

(* One engineer turn, then the thread is selected again and reloaded *)
NextReplay ==
    \/ \E n \in Issues : StartEngineer(1, n)
    \/ FetchOk(1)
    \/ \E ev \in StreamMenu : ReadEvent(1, ev, MaxReplayEvents)
    \/ StreamEnd(1)
    \/ \E ok \in BOOLEAN : RefreshDone(1, ok)
    \/ \E n \in Issues : SetCurrentThread(EngineerThread(n))
    \/ \E n \in Issues, reply \in StoredReplies, ok \in BOOLEAN :
          LoadMessagesDone(EngineerThread(n), ok, reply)

SpecReplay == Init /\ [][NextReplay]_vars

(* Thread selection: turns list the threads, setCurrentThread selects    *)
(* one, and each selection's loadMessages completes in its own time.      *)
NextSelect ==
    \/ \E t \in TurnIds : HandleSubmit(t)
    \/ \E t \in TurnIds, n \in Issues : StartEngineer(t, n)
    \/ \E t \in TurnIds : FetchOk(t)
    \/ \E t \in TurnIds, ev \in StreamMenu : ReadEvent(t, ev, MaxStream)
    \/ \E t \in TurnIds : StreamEnd(t)
    \/ \E t \in TurnIds, ok \in BOOLEAN : RefreshDone(t, ok)
    \/ \E th \in [k : {"visionary", "engineer"}, n : TurnIds \cup Issues] :
          SetCurrentThread(th)
    \/ \E th \in [k : {"visionary", "engineer"}, n : TurnIds \cup Issues],
          reply \in ServerReplies, ok \in BOOLEAN :
          LoadMessagesDone(th, ok, reply)

SpecSelect == Init /\ [][NextSelect]_vars

(* The log list: addLog called again and again, and clearLogs.            *)
MaxLogCalls == 202  \* calls of addLog since the list was last empty

\* addLog(log): the entry carries the number of the call as its message
AddLogCall ==
    LET n == IF logs = <<>> THEN 1 ELSE logs[Len(logs)].message + 1
    IN /\ n <= MaxLogCalls
       /\ logs' = AddLog(logs, InfoLog(n))
       /\ UNCHANGED <<pvars, server, deletes, agents, currentAgentId, threads, messages,
                      currentThreadId, isLoading, isStreaming,
                      currentAbortController, turns, loads, serverThreads,
                      aborts>>

\* clearLogs: set({ logs: [] })
ClearLogs ==
    /\ logs # <<>>
    /\ logs' = <<>>
    /\ UNCHANGED <<pvars, server, deletes, agents, currentAgentId, threads, messages,
                   currentThreadId, isLoading, isStreaming,
                   currentAbortController, turns, loads, serverThreads,
                   aborts>>

NextLogs == AddLogCall \/ ClearLogs

SpecLogs == Init /\ [][NextLogs]_vars

(* deleteThread: the request, and what the store does with its outcome.  *)
(* The server answers { success: true } after deleting the thread and 500 *)
(* when it could not (index.ts lines 77-93); the request can also reject. *)
DeleteResults == {"ok", "notok", "rejected"}

\* deleteThread(threadId) up to its awaits: the Sidebar's delete button of a
\* listed thread; for an engineer thread the worktree cleanup comes first
\* and its failure is ignored
DeleteThread(th) ==
    /\ th \in threads
    /\ th \notin deletes
    /\ deletes' = deletes \cup {th}
    /\ UNCHANGED <<pvars, server, agents, currentAgentId, threads, messages,
                   currentThreadId, isLoading, isStreaming, logs,
                   currentAbortController, turns, loads, serverThreads,
                   aborts>>

\* the local removal of set(...) in deleteThread
RemoveThreadLocally(th) ==
    /\ threads' = threads \ {th}
    /\ currentThreadId' = IF currentThreadId = th THEN NoThread
                          ELSE currentThreadId
    /\ messages' = IF currentThreadId = th THEN <<>> ELSE messages

\* later variant after `await fetch(DELETE)`: !res.ok throws, and the catch
\* block only logs to the console
DeleteThreadDone(th, result) ==
    /\ th \in deletes
    /\ deletes' = deletes \ {th}
    /\ serverThreads' = IF result = "ok" THEN serverThreads \ {th}
                        ELSE serverThreads
    /\ IF result = "ok"
       THEN /\ RemoveThreadLocally(th)
            /\ agents' = IF th.k = "engineer"
                         THEN [agents EXCEPT ![Eng(th.n)] = "absent"]
                         ELSE agents
       ELSE UNCHANGED <<threads, currentThreadId, messages, agents>>
    /\ UNCHANGED <<pvars, server, currentAgentId, isLoading, isStreaming, logs,
                   currentAbortController, turns, loads, aborts>>

\* earlier variant (lines 215-226) after `await fetch(DELETE)`: the
\* response's status is never looked at; only a rejected fetch reaches the
\* catch block
DeleteThreadDoneEarlier(th, result) ==
    /\ th \in deletes
    /\ deletes' = deletes \ {th}
    /\ serverThreads' = IF result = "ok" THEN serverThreads \ {th}
                        ELSE serverThreads
    /\ IF result # "rejected"
       THEN RemoveThreadLocally(th)
       ELSE UNCHANGED <<threads, currentThreadId, messages>>
    /\ UNCHANGED <<pvars, server, agents, currentAgentId, isLoading, isStreaming, logs,
                   currentAbortController, turns, loads, aborts>>

NextDelete ==
    \/ \E n \in Issues : StartEngineer(1, n)
    \/ FetchOk(1)
    \/ \E ev \in StreamMenu : ReadEvent(1, ev, MaxDeleteEvents)
    \/ StreamEnd(1)
    \/ \E ok \in BOOLEAN : RefreshDone(1, ok)
    \/ \E n \in Issues : SetCurrentThread(EngineerThread(n))
    \/ \E n \in Issues, reply \in ServerReplies, ok \in BOOLEAN :
          LoadMessagesDone(EngineerThread(n), ok, reply)
    \/ \E n \in Issues : DeleteThread(EngineerThread(n))
    \/ \E n \in Issues, r \in DeleteResults :
          DeleteThreadDone(EngineerThread(n), r)

SpecDelete == Init /\ [][NextDelete]_vars

NextDeleteEarlier ==
    \/ \E n \in Issues : StartEngineerEarlier(1, n)
    \/ FetchOkEarlier(1)
    \/ \E ev \in StreamMenu : ReadEventEarlier(1, ev, MaxDeleteEvents)
    \/ StreamEndEarlier(1)
    \/ \E ok \in BOOLEAN : RefreshDoneEarlier(1, ok)
    \/ \E n \in Issues : DeleteThread(EngineerThread(n))
    \/ \E n \in Issues, r \in DeleteResults :
          DeleteThreadDoneEarlier(EngineerThread(n), r)

SpecDeleteEarlier == InitEarlier /\ [][NextDeleteEarlier]_vars

(* One response of /api/engineer/chat or /api/engineer/start.             *)
MaxChunks == 3      \* chunks the agent's fullStream yields

\* agent.stream(...) has resolved and stream(c, ...) starts its callback
ServerRequest(endpoint) ==
    /\ server.pc = "idle"
    /\ server' = [server EXCEPT !.endpoint = endpoint, !.pc = "streaming"]
    /\ UNCHANGED <<pvars, agents, currentAgentId, threads, messages,
                   currentThreadId, isLoading, isStreaming, logs,
                   currentAbortController, turns, loads, serverThreads,
                   aborts, deletes>>

\* the loop takes the next chunk and writes what its branch writes
ServerChunk(ch) ==
    /\ server.pc = "streaming"
    /\ Len(server.chunks) < MaxChunks
    /\ server' = [server EXCEPT
                     !.chunks = Append(@, ch),
                     !.written = @ \o WrittenFor(server.endpoint, ch)]
    /\ UNCHANGED <<pvars, agents, currentAgentId, threads, messages,
                   currentThreadId, isLoading, isStreaming, logs,
                   currentAbortController, turns, loads, serverThreads,
                   aborts, deletes>>

\* fullStream is exhausted and the callback returns
ServerClose ==
    /\ server.pc = "streaming"
    /\ server' = [server EXCEPT !.pc = "closed"]
    /\ UNCHANGED <<pvars, agents, currentAgentId, threads, messages,
                   currentThreadId, isLoading, isStreaming, logs,
                   currentAbortController, turns, loads, serverThreads,
                   aborts, deletes>>

NextServer ==
    \/ \E e \in {"chat", "start"} : ServerRequest(e)
    \/ \E ch \in ChunkMenu : ServerChunk(ch)
    \/ ServerClose

SpecServer == Init /\ [][NextServer]_vars

(* Turns whose transport does not hang: every pending fetch, read of the  *)
(* error body, read loop and awaited loadThreads eventually returns or    *)
(* fails.                                                                  *)
TransportReturns(t) ==
    \/ FetchOk(t)
    \/ \E e \in ErrorBodies : FetchNotOk(t, e)
    \/ ErrorBodyRead(t)
    \/ FetchRejects(t)
    \/ ReadRejects(t)
    \/ StreamEnd(t)
    \/ \E ok \in BOOLEAN : RefreshDone(t, ok)

SettleTurns == {t \in TurnIds : t <= 2}

NextSettle ==
    \/ \E t \in SettleTurns : HandleSubmit(t)
    \/ \E t \in SettleTurns, n \in Issues : StartEngineer(t, n)
    \/ \E t \in SettleTurns : TransportReturns(t)
    \/ \E t \in SettleTurns, ev \in {TextEvent(StringContent("a")), FinishEvent} :
          ReadEvent(t, ev, MaxStream)
    \/ AbortStream

SpecSettle ==
    /\ Init
    /\ [][NextSettle]_vars
    /\ \A t \in TurnIds : WF_vars(TransportReturns(t))

(* One turn of either kind with the full event menu, every way it can end *)
NextTurn ==
    \/ HandleSubmit(1)
    \/ \E n \in Issues : StartEngineer(1, n)
    \/ FetchOk(1)
    \/ \E e \in ErrorBodies : FetchNotOk(1, e)
    \/ ErrorBodyRead(1)
    \/ FetchRejects(1)
    \/ ReadRejects(1)
    \/ \E ev \in EventMenu : ReadEvent(1, ev, MaxTurnEvents)
    \/ \E c \in {"a", "b"} : ReadText(1, c, MaxTurnEvents)
    \/ StreamEnd(1)
    \/ \E ok \in BOOLEAN : RefreshDone(1, ok)
    \/ AbortStream

SpecTurn == Init /\ [][NextTurn]_vars

----------------------------------------------------------------------------
(* Parser specification: a body is delivered in chunks of up to      *)
(* MaxChunk characters, or all that is left of it at once.                 *)
InitParser ==
    /\ variant \in {"earlier", "later"}
    /\ input \in Bodies(MaxFrames) \ { <<>> }
    /\ pos = 0
    /\ buffer = <<>>
    /\ emitted = <<>>
    /\ processed = <<>>
    /\ span = 0
    /\ split3 = FALSE
    /\ InitStore

\* reader.read() resolves with the next k characters; the loop body runs.
ReadChunk ==
    \E k \in { j \in 1..(Len(input) - pos) :
                    j <= MaxChunk \/ j = Len(input) - pos } :
        LET chunk == SubSeq(input, pos + 1, pos + k)
            r     == ProcessChunk(variant, buffer, chunk)
            first == span + 1
        IN /\ pos' = pos + k
           /\ buffer' = r.buffer
           /\ emitted' = emitted \o r.events
           /\ processed' = processed \o r.lines
           /\ span' = IF r.buffer = <<>> THEN 0
                      ELSE IF r.lines = <<>> THEN Min(span + 1, SpanCap)
                      ELSE 1
           /\ split3' = (split3 \/ (/\ r.lines # <<>>
                                    /\ LineEvents(r.lines[1]) # <<>>
                                    /\ first >= 3))
           /\ UNCHANGED <<variant, input, svars>>

NextParser == ReadChunk

SpecParser == InitParser /\ [][NextParser]_vars

----------------------------------------------------------------------------
(* Reference readings of a body, computed character by character.          *)
Delivered == SubSeq(input, 1, pos)

\* the lines of s that are terminated by a line feed, in order
RECURSIVE LFLines(_, _)
LFLines(s, cur) ==
    IF s = <<>> THEN <<>>
    ELSE IF Head(s) = LF THEN <<cur>> \o LFLines(Tail(s), <<>>)
         ELSE LFLines(Tail(s), Append(cur, Head(s)))

\* what follows the last line feed of s
RECURSIVE LFRest(_, _)
LFRest(s, cur) ==
    IF s = <<>> THEN cur
    ELSE IF Head(s) = LF THEN LFRest(Tail(s), <<>>)
         ELSE LFRest(Tail(s), Append(cur, Head(s)))

\* C4: whatever the cut into chunks, the events yielded so far are the
\* events the parser yields when everything delivered so far arrives as
\* one chunk.
ParserResilience ==
    emitted = ProcessChunk(variant, <<>>, Delivered).events

\* C4 witness: a data: line that arrived in three chunks yielded its event.
ParserResilienceWitness ==
    /\ split3
    /\ emitted # <<>>
    /\ pos = Len(input)

\* C5: after each chunk, every line whose line feed has been received has
\* been visited by the loop, and the buffer holds exactly the fragment
\* after the last line feed.
LinesProcessedOnArrival ==
    /\ processed = LFLines(Delivered, <<>>)
    /\ buffer = LFRest(Delivered, <<>>)

----------------------------------------------------------------------------
(* The assistant message of a turn, as the chat panel shows it.            *)
HasMessage(t) == \E i \in 1..Len(messages) : messages[i].id = AssistantId(t)
Msg(t) == messages[CHOOSE i \in 1..Len(messages) : messages[i].id = AssistantId(t)]

\* the read loop of the turn is running or has just ended
Reading(t) == turns[t].pc \in {"read", "refresh"}

\* text and tool-call events in the order the turn dispatched them
RECURSIVE ArrivalOrder(_)
ArrivalOrder(evs) ==
    IF evs = <<>> THEN <<>>
    ELSE LET ev == Head(evs)
             here == IF ev.type = "text"
                     THEN [i \in 1..Len(CoerceContent(ev.content)) |->
                             [part |-> "text", v |-> CoerceContent(ev.content)[i]]]
                     ELSE IF ev.type = "tool-call"
                     THEN <<[part |-> "tool", v |-> ev.toolCallId]>>
                     ELSE <<>>
         IN here \o ArrivalOrder(Tail(evs))

\* the order in which ChatPanel's Message component lays a message out:
\* its content, then its toolCalls (ChatPanel.tsx lines 17-107)
RenderedOrder(m) ==
    LET text == SelectSeq(m.content, LAMBDA x : x # PARA)
    IN [i \in 1..Len(text) |-> [part |-> "text", v |-> text[i]]]
       \o [i \in 1..Len(m.toolCalls) |-> [part |-> "tool", v |-> m.toolCalls[i].id]]

\* the parts of a message as laid out: one text part when there is text,
\* then one part per tool call
RenderedParts(m) ==
    (IF m.content # <<>>
     THEN <<[part |-> "text", text |-> m.content, id |-> NoValue,
             status |-> NoValue, output |-> NoValue]>>
     ELSE <<>>)
    \o [i \in 1..Len(m.toolCalls) |->
          [part |-> "tool", text |-> <<>>, id |-> m.toolCalls[i].id,
           status |-> m.toolCalls[i].status, output |-> m.toolCalls[i].output]]

CountEvents(evs, type, id) ==
    Cardinality({ i \in 1..Len(evs) : evs[i].type = type /\ evs[i].toolCallId = id })

\* C1: the message shows text and tool calls in the order their events
\* arrived: a tool call that arrived between two text events lies between
\* their texts.
OrderingInvariant ==
    \A t \in TurnIds :
        (Reading(t) /\ HasMessage(t))
            => RenderedOrder(Msg(t)) = ArrivalOrder(turns[t].arrived)

\* C2: once a tool call of the message is complete or error, no step
\* changes its status, output or error.
TerminalMonotonicity ==
    [][ \A t \in TurnIds :
          (HasMessage(t) /\ HasMessage(t)') =>
             \A i \in 1..Len(Msg(t).toolCalls) :
                Msg(t).toolCalls[i].status \in {"complete", "error"} =>
                   /\ i <= Len(Msg(t)'.toolCalls)
                   /\ Msg(t)'.toolCalls[i].status = Msg(t).toolCalls[i].status
                   /\ Msg(t)'.toolCalls[i].output = Msg(t).toolCalls[i].output
                   /\ Msg(t)'.toolCalls[i].error = Msg(t).toolCalls[i].error ]_vars

\* C3: after two tool-call events with one id, the turn's Map holds one
\* entry for the id and the message holds exactly one tool call with it.
IdempotentToolCallCreation ==
    \A t \in TurnIds, id \in ToolIds :
        (Reading(t) /\ HasMessage(t)
         /\ CountEvents(turns[t].arrived, "tool-call", id) >= 2)
            => /\ turns[t].toolCalls[id].status # "absent"
               /\ Cardinality({ i \in 1..Len(Msg(t).toolCalls) :
                                   Msg(t).toolCalls[i].id = id }) = 1

\* Scenario A of the specification: "Let me check" is the text a, " done"
\* the text b, "contents" the result r1.
ScenarioA ==
    << TextEvent(StringContent("a")), ToolCallEvent("t1"),
       ToolResultEvent("t1", "r1", FALSE), TextEvent(StringContent("b")) >>

LastEvent(t) == turns[t].arrived[Len(turns[t].arrived)]

\* the turn has just dispatched the only result of a call it had begun once
FirstResultJustArrived(t) ==
    /\ turns[t].pc = "read"
    /\ turns[t].arrived # <<>>
    /\ LastEvent(t).type = "tool-result"
    /\ CountEvents(turns[t].arrived, "tool-call", LastEvent(t).toolCallId) = 1
    /\ CountEvents(turns[t].arrived, "tool-result", LastEvent(t).toolCallId) = 1

\* C6: a non-error result makes the call inside the message complete with
\* that output, in place; scenario A ends with text, tool call, text.
ResultVisibleInPlace ==
    /\ [] \A t \in TurnIds :
            /\ (FirstResultJustArrived(t) /\ HasMessage(t) /\ ~LastEvent(t).isError)
                 => \E i \in 1..Len(Msg(t).toolCalls) :
                       /\ Msg(t).toolCalls[i].id = LastEvent(t).toolCallId
                       /\ Msg(t).toolCalls[i].status = "complete"
                       /\ Msg(t).toolCalls[i].output = LastEvent(t).result
            /\ (Reading(t) /\ HasMessage(t) /\ turns[t].finished
                /\ turns[t].arrived = ScenarioA)
                 => RenderedParts(Msg(t)) =
                      << [part |-> "text", text |-> <<"a">>, id |-> NoValue,
                          status |-> NoValue, output |-> NoValue],
                         [part |-> "tool", text |-> <<>>, id |-> "t1",
                          status |-> "complete", output |-> "r1"],
                         [part |-> "text", text |-> <<"b">>, id |-> NoValue,
                          status |-> NoValue, output |-> NoValue] >>
    /\ [][ \A t \in TurnIds :
             (HasMessage(t) /\ HasMessage(t)' /\ turns[t].pc = "read"
              /\ FirstResultJustArrived(t)')
                => [i \in 1..Len(Msg(t)'.toolCalls) |-> Msg(t)'.toolCalls[i].id]
                   = [i \in 1..Len(Msg(t).toolCalls) |-> Msg(t).toolCalls[i].id] ]_vars

\* C7: a result with isError true leaves the call in status error with its
\* error set, a result with isError false in status complete with its
\* output set.
ErrorResultDistinguished ==
    \A t \in TurnIds :
        (FirstResultJustArrived(t) /\ HasMessage(t)) =>
            \E i \in 1..Len(Msg(t).toolCalls) :
                /\ Msg(t).toolCalls[i].id = LastEvent(t).toolCallId
                /\ IF LastEvent(t).isError
                   THEN /\ Msg(t).toolCalls[i].status = "error"
                        /\ Msg(t).toolCalls[i].error # NoValue
                   ELSE /\ Msg(t).toolCalls[i].status = "complete"
                        /\ Msg(t).toolCalls[i].output = LastEvent(t).result

\* a turn whose request or response stream is still open
Streaming(t) == turns[t].pc \in {"fetch", "errjson", "read"}

\* a turn that has not settled
InFlight(t) == turns[t].pc \in {"fetch", "errjson", "read", "refresh"}

\* C8: a loadMessages reply replaces the transcript only when no turn for
\* that thread is streaming.
NoReloadWhileStreaming ==
    [][ \A th \in loads :
          th \notin loads' =>
             ~ \E t \in TurnIds : Streaming(t) /\ turns[t].threadId = th ]_vars

\* what the transcript holds for turn t, and whether its controller is the
\* registered one
Transcript(t) == SelectSeq(messages, LAMBDA m : m.id = AssistantId(t))
Registered(t) == currentAbortController = t

\* C9: a step of one started turn (an event, its completion, its
\* cancellation) changes neither the transcript nor the cancel handle of
\* another turn that is in flight.
TurnIsolation ==
    [][ \A t, u \in TurnIds :
          (/\ t # u
           /\ turns[u].pc # "idle"
           /\ turns'[u] # turns[u]
           /\ InFlight(t)
           /\ turns'[t] = turns[t])
             => /\ Registered(t)' = Registered(t)
                /\ Transcript(t)' = Transcript(t) ]_vars

\* C10: when a turn settles on a transport failure that is not a user
\* cancellation, the transcript holds its assistant message with content
\* "Error: <reason>", the reason being the server's error string when the
\* body carried one.
ErrorMarkerShown ==
    [][ \A t \in TurnIds :
          (/\ turns[t].pc # "done"
           /\ turns'[t].pc = "done"
           /\ turns'[t].outcome = "error"
           /\ ~turns'[t].aborted)
             => /\ \E i \in 1..Len(messages') :
                      /\ messages'[i].id = AssistantId(t)
                      /\ messages'[i].content = ErrorMarker(turns'[t].reason)
                /\ (turns[t].pc = "errjson" /\ turns[t].errorData # NoValue)
                      => turns'[t].reason = turns[t].errorData ]_vars

\* the text the events of a turn carry, as the read loop accumulates it
HasText(evs) == \E i \in 1..Len(evs) : evs[i].type = "text"

\* ids of the tool-call events among evs, in order
RECURSIVE ToolCallIds(_)
ToolCallIds(evs) ==
    IF evs = <<>> THEN <<>>
    ELSE (IF Head(evs).type = "tool-call" THEN <<Head(evs).toolCallId>> ELSE <<>>)
         \o ToolCallIds(Tail(evs))

MessageToolIds(m) == [i \in 1..Len(m.toolCalls) |-> m.toolCalls[i].id]

\* abortStream is called while turn t owns the registered controller
CancelOf(t) == aborts' # aborts /\ currentAbortController = t

\* C11: when abortStream cancels a turn whose read loop has processed some
\* text and no finish, the turn ends as aborted and its assistant message
\* is left as it was: the accumulated text and the tool calls of the
\* events processed so far, with no error text.
CancellationIsNotAnError ==
    [][ \A t \in TurnIds :
          (/\ CancelOf(t)
           /\ turns[t].pc = "read"
           /\ HasText(turns[t].arrived)
           /\ ~turns[t].finished
           /\ HasMessage(t))
             => /\ turns'[t].pc = "done"
                /\ turns'[t].outcome = "aborted"
                /\ HasMessage(t)'
                /\ Msg(t)' = Msg(t)
                /\ Msg(t)'.content = turns[t].fullContent
                /\ MessageToolIds(Msg(t)') = ToolCallIds(turns[t].arrived) ]_vars

\* C11 witness: a cancelled turn whose message keeps two pieces of text and
\* a tool call.
CancellationIsNotAnErrorWitness ==
    /\ turns[1].pc = "done"
    /\ turns[1].outcome = "aborted"
    /\ HasMessage(1)
    /\ Len(Msg(1).content) >= 2
    /\ Msg(1).toolCalls # <<>>

\* C12: from the call of abortStream that cancels a turn on, the turn's
\* assistant message never changes again.
NoMutationAfterCancel ==
    [][ \A t \in TurnIds :
          (/\ CancelOf(t) \/ turns[t].aborted
           /\ HasMessage(t)
           /\ HasMessage(t)')
             => Msg(t)' = Msg(t) ]_vars

\* C16: a turn settles only out of its awaited loadThreads: on every path
\* (normal end, error, cancellation) the thread list was requested.
RefreshOnEveryPath ==
    [][ \A t \in TurnIds :
          (turns[t].pc # "done" /\ turns'[t].pc = "done")
             => turns[t].pc = "refresh" ]_vars

\* the read loop of turn t dispatches one more event in this step
Dispatches(t) ==
    /\ turns[t].pc = "read"
    /\ turns'[t].pc = "read"
    /\ Len(turns'[t].arrived) = Len(turns[t].arrived) + 1

Dispatched(t) == turns'[t].arrived[Len(turns'[t].arrived)]

\* C13: once a finish event was dispatched, no later event of the stream
\* changes the assistant message.
FinishFinalizes ==
    [][ \A t \in TurnIds :
          (/\ turns[t].pc = "read"
           /\ turns[t].finished
           /\ turns'[t].pc = "read"
           /\ HasMessage(t)
           /\ HasMessage(t)')
             => Msg(t)' = Msg(t) ]_vars

\* C15: a tool-result whose id had no tool-call in the turn changes
\* nothing: no entry in the turn's Map, no change of messages, text or
\* logs, and the read loop goes on.
UnknownResultIgnored ==
    [][ \A t \in TurnIds :
          (/\ turns[t].pc = "read"
           /\ turns'[t] # turns[t]
           /\ Len(turns'[t].arrived) = Len(turns[t].arrived) + 1
           /\ Dispatched(t).type = "tool-result"
           /\ CountEvents(turns[t].arrived, "tool-call", Dispatched(t).toolCallId) = 0)
             => /\ turns'[t].pc = "read"
                /\ turns'[t].toolCalls = turns[t].toolCalls
                /\ turns'[t].fullContent = turns[t].fullContent
                /\ messages' = messages
                /\ logs' = logs ]_vars

\* C15 witness: a result for an id never called has been dispatched while
\* the message holds text and a call with another id.
UnknownResultIgnoredWitness ==
    /\ turns[1].pc = "read"
    /\ turns[1].arrived # <<>>
    /\ LastEvent(1).type = "tool-result"
    /\ CountEvents(turns[1].arrived, "tool-call", LastEvent(1).toolCallId) = 0
    /\ HasMessage(1)
    /\ Msg(1).content # <<>>
    /\ Msg(1).toolCalls # <<>>
    /\ \A i \in 1..Len(Msg(1).toolCalls) : Msg(1).toolCalls[i].status = "calling"

\* C17: the tool calls of the message are, in order, the tool-call events
\* of the turn, whatever results have arrived.
ToolCallsInArrivalOrder ==
    \A t \in TurnIds :
        (Reading(t) /\ HasMessage(t))
            => MessageToolIds(Msg(t)) = ToolCallIds(turns[t].arrived)

\* C17 witness: two calls were open at once and the result of the first
\* arrived after the result of the second.
ToolCallsInArrivalOrderWitness ==
    /\ turns[1].pc = "read"
    /\ turns[1].arrived = << ToolCallEvent("t1"), ToolCallEvent("t2"),
                             ToolResultEvent("t2", "r1", FALSE),
                             ToolResultEvent("t1", "r1", FALSE) >>
    /\ HasMessage(1)
    /\ MessageToolIds(Msg(1)) = <<"t1", "t2">>
    /\ \A i \in 1..2 : Msg(1).toolCalls[i].status = "complete"

\* C19: a text event whose content is not a string appends the JSON text
\* of the content to the assistant message.
NonStringTextCoerced ==
    [][ \A t \in TurnIds :
          (/\ Dispatches(t)
           /\ Dispatched(t).type = "text"
           /\ Dispatched(t).content.typeof # "string"
           /\ HasMessage(t)
           /\ HasMessage(t)')
             => Msg(t)'.content = Msg(t).content \o <<Dispatched(t).content.json>> ]_vars

\* C18: a step-finish event appends the paragraph separator to the text of
\* the assistant message and leaves the tool calls, in the message and in
\* the turn's Map, as they were.
StepFinishAppendsSeparator ==
    [][ \A t \in TurnIds :
          (/\ Dispatches(t)
           /\ Dispatched(t).type = "step-finish"
           /\ HasMessage(t)
           /\ HasMessage(t)')
             => /\ Msg(t)'.content = Msg(t).content \o <<PARA>>
                /\ Msg(t)'.toolCalls = Msg(t).toolCalls
                /\ turns'[t].toolCalls = turns[t].toolCalls ]_vars

\* the events a sequence of complete lines stands for: one per line that
\* is the prefix followed by a well-formed JSON text, none for any other
RECURSIVE ExpectedEvents(_)
ExpectedEvents(ls) ==
    IF ls = <<>> THEN <<>>
    ELSE LET l == Head(ls)
             here == IF \E p \in WellFormedPayloads : l = DataPrefix \o p
                     THEN LET p == CHOOSE q \in WellFormedPayloads : l = DataPrefix \o q
                          IN <<Unescape(SubSeq(p, 2, Len(p) - 1))>>
                     ELSE <<>>
         IN here \o ExpectedEvents(Tail(ls))

\* C14: in the later variant, the events yielded are exactly those of the
\* well-formed data: lines received so far, in order: a data: line whose
\* payload does not parse yields nothing and stops nothing after it.
MalformedFrameDropped ==
    variant = "later" => emitted = ExpectedEvents(LFLines(Delivered, <<>>))

\* C14 witness: a body whose first frame is damaged and whose second frame
\* is well-formed has been read to its end, and the second frame's event
\* is the only one yielded.
MalformedFrameDroppedWitness ==
    /\ variant = "later"
    /\ input = Frame(<<"{", "t">>) \o Frame(<<"{", "c", "}">>)
    /\ pos = Len(input)
    /\ emitted = << <<"c">> >>

\* C20: while a turn is in flight or takes a step, a user message of the
\* visible thread keeps its place and its fields.
UserMessageImmutable ==
    [][ \A t \in TurnIds :
          \A i \in 1..Len(messages) :
             (/\ messages[i].id = UserId(t)
              /\ currentThreadId = turns[t].threadId
              /\ currentThreadId' = currentThreadId
              /\ \E u \in TurnIds : InFlight(u) \/ turns'[u] # turns[u])
                => /\ i <= Len(messages')
                   /\ messages'[i] = messages[i] ]_vars

\* C21: when the thread of a turn that ended normally is reloaded and the
\* reply carries the turn's text, the reloaded assistant message has the
\* text and the tool calls (ids, statuses, outputs) of the live message.
ReplayMatchesLive ==
    [][ \A t \in TurnIds :
          (/\ turns[t].pc = "done"
           /\ turns[t].outcome = "ok"
           /\ turns[t].threadId \in loads
           /\ turns[t].threadId \notin loads'
           /\ HasMessage(t)
           /\ \E i \in 1..Len(messages') : messages'[i].content = Msg(t).content)
             => \E i \in 1..Len(messages') :
                   /\ messages'[i].role = "assistant"
                   /\ messages'[i].content = Msg(t).content
                   /\ messages'[i].toolCalls = Msg(t).toolCalls ]_vars

\* the text the text events among evs carry, concatenated
RECURSIVE ArrivedText(_)
ArrivedText(evs) ==
    IF evs = <<>> THEN <<>>
    ELSE (IF Head(evs).type = "text" THEN <<Head(evs).content.json>> ELSE <<>>)
         \o ArrivedText(Tail(evs))

\* the text holds one complete embedded block
ContainsBlock(text) ==
    \E i \in 1..(Len(text) - 1) : text[i] = BlockOpen /\ text[i + 1] = BlockClose

\* C22: when the stream has ended and the text received holds a complete
\* embedded tool-call block, the message holds exactly one tool call with
\* the block's id.
EmbeddedCallExactlyOnce ==
    \A t \in TurnIds :
        (/\ turns[t].pc = "refresh"
         /\ HasMessage(t)
         /\ ContainsBlock(ArrivedText(turns[t].arrived)))
            => Cardinality({ i \in 1..Len(Msg(t).toolCalls) :
                                Msg(t).toolCalls[i].id = "t2" }) = 1

\* C23: while a turn started by sendMessage or startEngineer has not
\* settled, isStreaming is true.
StreamingWhileInFlight ==
    \A t \in TurnIds : InFlight(t) => isStreaming

\* C24: when the last outstanding loadMessages request completes while a
\* listed thread is selected and no turn is in flight, the reply applied is
\* the one for the selected thread.
LateReplyNeverShown ==
    [][ \A th \in loads :
          (/\ th \notin loads'
           /\ loads' = {}
           /\ currentThreadId \in threads
           /\ \A t \in TurnIds : ~InFlight(t))
             => th = currentThreadId ]_vars

\* C25: when abortStream cancels the running stream of startEngineer for
\* issue n, the engineer eng-n has status idle afterwards.
AbortedEngineerIdle ==
    [][ \A t \in TurnIds :
          (/\ CancelOf(t)
           /\ turns[t].op = "start"
           /\ turns[t].pc \in {"fetch", "read"}
           /\ agents[Eng(turns[t].issue)] = "working")
             => agents'[Eng(turns[t].issue)] = "idle" ]_vars

\* C26: once the stream of startEngineer for issue n has ended normally,
\* eng-n has status completed, also after the call has settled.
CompletedAfterSettle ==
    \A t \in TurnIds :
        (/\ turns[t].op = "start"
         /\ \/ turns[t].pc = "refresh"
            \/ turns[t].pc = "done" /\ turns[t].outcome = "ok")
            => agents[Eng(turns[t].issue)] = "completed"

\* C27: the log list never holds more than 200 entries, and its entries
\* are the most recent ones in the order they were added.
LogsKeepLast200 ==
    /\ Len(logs) <= 200
    /\ \A i \in 1..Len(logs) :
          logs[i].message = logs[Len(logs)].message - Len(logs) + i

\* C28: when a deleteThread call settles and the server still holds the
\* thread (the delete failed), threads, currentThreadId, messages and
\* agents are what they were.
FailedDeleteChangesNothing ==
    [][ \A th \in deletes :
          (th \notin deletes' /\ th \in serverThreads')
             => UNCHANGED <<threads, currentThreadId, messages, agents>> ]_vars

\* a text-delta chunk carries text when its textDelta or text is a
\* non-empty string
ChunkHasText(ch) ==
    \/ JsTruthy(Payload(ch).textDelta)
    \/ JsTruthy(Payload(ch).text)

Framed(ch) ==
    \/ ch.type \in {"tool-call", "tool-result", "step-finish", "finish"}
    \/ ch.type = "text-delta" /\ ChunkHasText(ch)

WireType(type) == IF type = "text-delta" THEN "text" ELSE type

\* the frame is the one for this chunk: the mapped type, the chunk's text,
\* the chunk's tool-call id
FrameOfChunk(fr, ch) ==
    /\ fr.type = WireType(ch.type)
    /\ ch.type = "text-delta" =>
          fr.content \in {Payload(ch).textDelta, Payload(ch).text}
    /\ ch.type \in {"tool-call", "tool-result"} =>
          fr.toolCallId \in {Payload(ch).toolCallId, Payload(ch).id}

\* C29: the frames written so far are, in order and one for one, the
\* chunks consumed so far that are a text-delta with text, a tool-call, a
\* tool-result, a step-finish or a finish, each with its mapped type; no
\* other chunk has a frame.
FramesAreTheFramedChunks ==
    LET framed == SelectSeq(server.chunks, Framed)
    IN /\ Len(server.written) = Len(framed)
       /\ \A i \in 1..Len(framed) : FrameOfChunk(server.written[i], framed[i])

FramesAreTheFramedChunksWitness ==
    /\ server.pc = "closed"
    /\ \E i \in 1..Len(server.chunks) :
          server.chunks[i].type = "text-delta" /\ ~ChunkHasText(server.chunks[i])
    /\ \E i \in 1..Len(server.chunks) :
          server.chunks[i].type \in {"step-start", "error"}
    /\ \E i \in 1..Len(server.chunks) :
          server.chunks[i].type = "tool-result"
    /\ Len(server.written) = 1

\* C30: every turn in flight eventually settles, and whenever no turn is
\* in flight isStreaming is false and no abort controller is registered.
EveryTurnSettles ==
    /\ \A t \in TurnIds : InFlight(t) ~> turns[t].pc = "done"
    /\ []((\A t \in TurnIds : ~InFlight(t))
            => (~isStreaming /\ currentAbortController = 0))

EveryTurnSettlesWitness ==
    /\ \A t \in TurnIds : turns[t].pc = "done"
    /\ \E t \in TurnIds : turns[t].outcome = "aborted"
    /\ \E t \in TurnIds : turns[t].outcome = "ok"
    /\ ~isStreaming
    /\ currentAbortController = 0

====
